---- MODULE Spec2Model ----
(***************************************************************************)
(* RecTools: the two-tower DSSM model without interactions                 *)
(* (rectools/models/dssm_no_interactions.py) and the array set operations  *)
(* (rectools/utils/array_set_ops.py).                                      *)
(*                                                                         *)
(* Numbers.  Tensors hold floats in the program; here every feature,       *)
(* weight and embedding component is an integer, a weight matrix is        *)
(* represented by one scalar entry (a (1, 1) layer), a batch is a sequence *)
(* of feature rows and a matrix is a sequence of rows.  Losses are kept in *)
(* tenths.  The wiring of the layers, of the towers and of the calls is    *)
(* the program's.                                                          *)
(***************************************************************************)
EXTENDS Integers, Sequences, FiniteSets, TLC

VARIABLES
    models,      \* heap of DSSMNoInteractions objects: reference -> object
    trainers,    \* heap of Trainer objects: reference -> object
    _model,      \* DSSMModelNoInteractions._model: template model (reference or None)
    _trainer,    \* DSSMModelNoInteractions._trainer: template trainer (reference)
    model,       \* DSSMModelNoInteractions.model: reference, None or Missing
    trainer,     \* DSSMModelNoInteractions.trainer: reference or Missing
    batch_size,  \* DSSMModelNoInteractions.batch_size
    pc,          \* position of the control flow
    fitArgs,     \* arguments of the _fit call in progress
    lastCall,    \* the last call made: [op, arg]
    result,      \* what the last call returned or raised
    input        \* the call drawn for the single-call specifications

vars == <<models, trainers, _model, _trainer, model, trainer, batch_size,
          pc, fitArgs, lastCall, result, input>>

-----------------------------------------------------------------------------
(* Bounds and input domains *)

MaxSteps == 2       \* training steps a trainer runs before its fit loop stops
MaxBatches == 2     \* batches a dataloader yields
MaxBatchLen == 2    \* rows of one batch

\* values a feature row takes
Features == {1, 2}

\* None, and an attribute that was never assigned; references are 1, 2, ...
None == 0
Missing == -1

\* What a call returns or raises.
Return(v) == [raised |-> "", value |-> v]

Raise(e) == [raised |-> e, value |-> <<>>]

NoCall == [op |-> "none", arg |-> <<>>]

SeqsUpTo(S, n) == UNION {[1..k -> S] : k \in 0..n}

NonEmptySeqsUpTo(S, n) == UNION {[1..k -> S] : k \in 1..n}

Abs(x) == IF x < 0 THEN -x ELSE x

RECURSIVE SumSeq(_)
SumSeq(s) == IF s = <<>> THEN 0 ELSE Head(s) + SumSeq(Tail(s))

-----------------------------------------------------------------------------
(* The towers *)

\* F.elu on the integer grid: x for x > 0, and exp(x) - 1, which lies in
\* (-1, 0) and rounds to -1, for x < 0.
elu(x) == IF x > 0 THEN x ELSE IF x = 0 THEN 0 ELSE -1

\* nn.Linear(bias=False) with a (1, 1) weight.
Linear(w, x) == w * x

ItemNet_forward(net, item_features) ==
    LET emb == elu(Linear(net.embedding_layer, item_features))
        features == elu(Linear(net.dense_layer, emb))
        x == emb + features
    IN  Linear(net.output_layer, x)

UserNet_forward(net, user_features) ==
    LET features_emb == elu(Linear(net.embedding_features_layer, user_features))
        features_dense == elu(Linear(net.features_dense_layer, features_emb))
        features_x == features_emb + features_dense
    IN  Linear(net.output_layer, features_x)

\* A tower applied to a batch: one output row per input row, in order.
item_net(self, batch) == [i \in 1..Len(batch) |-> ItemNet_forward(self.item_net, batch[i])]

user_net(self, batch) == [i \in 1..Len(batch) |-> UserNet_forward(self.user_net, batch[i])]

-----------------------------------------------------------------------------
(* DSSMNoInteractions *)

TripletLossMargin10 == 4   \* triplet_loss_margin = 0.4, in tenths
DefaultNFactors == 128

ItemNet(w) == [embedding_layer |-> w[1], dense_layer |-> w[2], output_layer |-> w[3]]

UserNet(w) ==
    [embedding_features_layer |-> w[1], features_dense_layer |-> w[2], output_layer |-> w[3]]

\* DSSMNoInteractions.__init__; wu and wi are the initial weights of the towers.
DSSMNoInteractions(n_factors_user, n_factors_item, wu, wi) ==
    [n_factors_user |-> n_factors_user,
     n_factors_item |-> n_factors_item,
     user_net |-> UserNet(wu),
     item_net |-> ItemNet(wi),
     triplet_loss_margin |-> TripletLossMargin10,
     training |-> TRUE]

\* The parameters of both towers (self.parameters()).
parameters(self) == <<self.user_net, self.item_net>>

forward_swapped(self, item_features_pos, item_features_neg, user_features) ==
    <<user_net(self, item_features_pos),
      item_net(self, item_features_neg),
      item_net(self, user_features)>>

forward(self, item_features_pos, item_features_neg, user_features) ==
    LET anchor == user_net(self, user_features)
        pos == item_net(self, item_features_pos)
        neg == item_net(self, item_features_neg)
    IN  <<anchor, pos, neg>>

\* F.triplet_margin_loss with p = 1 distances on scalars, mean over the batch,
\* in tenths (integer division).
triplet_margin_loss(anchor, positive, negative, margin) ==
    LET n == Len(anchor)
        per == [i \in 1..n |->
                  LET v == 10 * (Abs(anchor[i] - positive[i]) - Abs(anchor[i] - negative[i]))
                           + margin
                  IN  IF v > 0 THEN v ELSE 0]
    IN  SumSeq(per) \div n

\* training_step: the loss of the batch (user_features, pos, neg).
training_step(self, batch) ==
    LET user_features == batch[1]
        pos == batch[2]
        neg == batch[3]
        out == forward(self, pos, neg, user_features)
    IN  triplet_margin_loss(out[1], out[2], out[3], self.triplet_loss_margin)

\* The effect of a step on a model object: self after the call.
validation_step_updating(self, batch) ==
    [self EXCEPT !.user_net.output_layer = @ + 1]

validation_step_effect(self, batch) == self

validation_step(self, batch) ==
    LET user_features == batch[1]
        pos == batch[2]
        neg == batch[3]
        out == forward(self, pos, neg, user_features)
    IN  triplet_margin_loss(out[1], out[2], out[3], self.triplet_loss_margin)

\* torch.cat(batches, dim=0): raises on an empty list of tensors.
RECURSIVE Concat(_)
Concat(batches) == IF batches = <<>> THEN <<>> ELSE Head(batches) \o Concat(Tail(batches))

torch_cat(batches) ==
    IF batches = <<>> THEN Raise("RuntimeError") ELSE Return(Concat(batches))

inference_items(self, dataloader) ==
    LET batches == [k \in 1..Len(dataloader) |-> item_net(self, dataloader[k])]
    IN  torch_cat(batches)

inference_users(self, dataloader) ==
    LET batches == [k \in 1..Len(dataloader) |-> user_net(self, dataloader[k])]
    IN  torch_cat(batches)

\* self.eval(): the object after an inference call.
eval(self) == [self EXCEPT !.training = FALSE]

-----------------------------------------------------------------------------
(* DSSMModelNoInteractions: templates, _fit and factor extraction *)

\* Weights a tower is constructed with (random initialisation), as (wu, wi).
InitWeights == {<<<<1, 1, 1>>, <<2, 1, 1>>>>, <<<<1, -1, 2>>, <<1, 2, -1>>>>}

\* Template models a DSSMModelNoInteractions is constructed with.
TemplateModels ==
    {DSSMNoInteractions(64, 64, <<1, 2, 1>>, <<2, 1, 1>>),
     DSSMNoInteractions(8, 16, <<2, 1, -1>>, <<1, 1, 2>>)}

BatchSizes == {1, 2}

\* Pre-fit value of the attribute self.model: never assigned, or None.
UnfittedModel == {Missing, None}

\* Feature tables of a dataset: no row, one batch, full batches, a short last batch.
Tables == {<<>>, <<1>>, <<2, 1>>, <<1, 2, 2>>}

Datasets == [user_features : Tables, item_features : Tables]

\* Batches of triples (user_features, pos, neg) the training dataloader yields.
TripleBatches == {<<<<u>>, <<p>>, <<n>>>> : u \in Features, p \in Features, n \in Features}

\* Updates of the two towers' weights an optimizer step applies, in units of
\* the learning rate: (user tower, item tower).
Grads ==
    {<<<<0, 0, 0>>, <<0, 0, 0>>>>,
     <<<<0, 0, 1>>, <<0, 0, 0>>>>,
     <<<<0, 0, 0>>, <<-1, 0, 0>>>>,
     <<<<1, 1, 1>>, <<1, 1, 1>>>>}

Min(a, b) == IF a < b THEN a ELSE b

\* DataLoader(rows, batch_size, shuffle=False): consecutive chunks of
\* batch_size rows, the last one shorter; no batch for no rows.
DataLoader(rows, bs) ==
    [k \in 1..((Len(rows) + bs - 1) \div bs) |->
        SubSeq(rows, (k - 1) * bs + 1, Min(k * bs, Len(rows)))]

\* The smallest reference no object of the heap has.
FreshRef(heap) == CHOOSE r \in 1..(Cardinality(DOMAIN heap) + 1) : r \notin DOMAIN heap

deepcopy_alias(heap, ref) == [ref |-> ref, heap |-> heap]

\* copy.deepcopy: None for None, else a new object with the same contents.
deepcopy(heap, ref) ==
    IF ref = None
    THEN [ref |-> None, heap |-> heap]
    ELSE LET new == FreshRef(heap)
         IN  [ref |-> new, heap |-> (new :> heap[ref]) @@ heap]

\* The objects of a heap some reference of roots reaches.
Reachable(heap, roots) == [r \in (DOMAIN heap) \cap roots |-> heap[r]]

\* torch.optim.Adam step on the parameters of both towers.
optimizer_step(self, g) ==
    [self EXCEPT
        !.user_net = UserNet(<<@.embedding_features_layer - g[1][1],
                               @.features_dense_layer - g[1][2],
                               @.output_layer - g[1][3]>>),
        !.item_net = ItemNet(<<@.embedding_layer - g[2][1],
                               @.dense_layer - g[2][2],
                               @.output_layer - g[2][3]>>),
        !.training = TRUE]

Init ==
    /\ \/ /\ _model = None
          /\ models = <<>>
       \/ /\ _model = 1
          /\ \E t \in TemplateModels : models = (1 :> t)
    /\ _trainer = 1
    /\ trainers = (1 :> [global_step |-> 0])
    /\ model \in UnfittedModel
    /\ trainer = Missing
    /\ batch_size \in BatchSizes
    /\ pc = "idle"
    /\ fitArgs = [valid |-> FALSE]
    /\ lastCall = NoCall
    /\ result = Return(<<>>)
    /\ input = NoCall

\* _fit up to the call of self.trainer.fit: the copies, the default model and
\* the dataloaders.
FitBegin ==
    /\ pc = "idle"
    /\ \E dataset_valid \in {<<>>} \cup {<<d>> : d \in Datasets} :
         LET tc == deepcopy(trainers, _trainer)
             mc == deepcopy(models, _model)
         IN  /\ trainer' = tc.ref
             /\ trainers' = Reachable(tc.heap, {_trainer, tc.ref})
             /\ IF mc.ref = None
                THEN \E w \in InitWeights :
                       LET new == FreshRef(mc.heap)
                           obj == DSSMNoInteractions(DefaultNFactors, DefaultNFactors,
                                                     w[1], w[2])
                       IN  /\ model' = new
                           /\ models' = Reachable((new :> obj) @@ mc.heap, {_model, new})
                ELSE /\ model' = mc.ref
                     /\ models' = Reachable(mc.heap, {_model, mc.ref})
             /\ fitArgs' = [valid |-> dataset_valid # <<>>]
    /\ pc' = "fit"
    /\ lastCall' = [op |-> "_fit", arg |-> <<>>]
    /\ result' = Return(<<>>)
    /\ UNCHANGED <<_model, _trainer, batch_size, input>>

\* One training batch of self.trainer.fit: training_step, then the optimizer.
TrainStep ==
    /\ pc = "fit"
    /\ trainers[trainer].global_step < MaxSteps
    /\ \E batch \in TripleBatches, g \in Grads :
         /\ lastCall' = [op |-> "training_step", arg |-> batch]
         /\ result' = Return(training_step(models[model], batch))
         /\ models' = [models EXCEPT ![model] = optimizer_step(@, g)]
    /\ trainers' = [trainers EXCEPT ![trainer].global_step = @ + 1]
    /\ UNCHANGED <<_model, _trainer, model, trainer, batch_size, pc, fitArgs, input>>

\* One validation batch of self.trainer.fit.
ValStep ==
    /\ pc = "fit"
    /\ fitArgs.valid
    /\ \E batch \in TripleBatches :
         /\ lastCall' = [op |-> "validation_step", arg |-> batch]
         /\ result' = Return(validation_step(models[model], batch))
         /\ models' = [models EXCEPT ![model] = validation_step_effect(@, batch)]
    /\ UNCHANGED <<trainers, _model, _trainer, model, trainer, batch_size, pc, fitArgs, input>>

\* self.trainer.fit returns, and _fit with it.
FitEnd ==
    /\ pc = "fit"
    /\ pc' = "idle"
    /\ lastCall' = [op |-> "_fit_return", arg |-> <<>>]
    /\ result' = Return(<<>>)
    /\ UNCHANGED <<models, trainers, _model, _trainer, model, trainer, batch_size,
                   fitArgs, input>>

\* What _get_users_factors / _get_items_factors return or raise: self.model is
\* dereferenced with no check.
factors_of(kind, dataset) ==
    IF model \in UnfittedModel
    THEN Raise("AttributeError")
    ELSE IF kind = "users"
         THEN inference_users(models[model], DataLoader(dataset.user_features, batch_size))
         ELSE inference_items(models[model], DataLoader(dataset.item_features, batch_size))

GetFactors(kind, op) ==
    /\ pc = "idle"
    /\ \E dataset \in Datasets :
         /\ lastCall' = [op |-> op, arg |-> dataset]
         /\ result' = factors_of(kind, dataset)
    /\ models' = IF model \in UnfittedModel THEN models
                 ELSE [models EXCEPT ![model] = eval(@)]
    /\ UNCHANGED <<trainers, _model, _trainer, model, trainer, batch_size, pc, fitArgs, input>>

_get_users_factors == GetFactors("users", "_get_users_factors")

_get_items_factors == GetFactors("items", "_get_items_factors")

Next ==
    \/ FitBegin
    \/ TrainStep
    \/ ValStep
    \/ FitEnd
    \/ _get_users_factors
    \/ _get_items_factors

Spec == Init /\ [][Next]_vars

-----------------------------------------------------------------------------
(* Claims about DSSMModelNoInteractions (specification Spec) *)

FactorOps == {"_get_users_factors", "_get_items_factors"}

\* C2: no step of any sequence of _fit calls changes the template model or
\* the template trainer, and every _fit starts training on new objects: a
\* copy of the template trainer, and a copy of the template model or, with no
\* template model, a new model with n_factors 128 for both towers; never the
\* template itself and never the model an earlier fit trained.
C2_FitKeepsTemplates ==
    [][/\ _model' = _model
       /\ _trainer' = _trainer
       /\ trainers'[_trainer] = trainers[_trainer]
       /\ (_model # None => models'[_model] = models[_model])
       /\ (pc = "idle" /\ pc' = "fit") =>
            /\ trainer' \notin DOMAIN trainers
            /\ trainers'[trainer'] = trainers[_trainer]
            /\ model' \notin DOMAIN models
            /\ IF _model = None
               THEN /\ models'[model'].n_factors_user = 128
                    /\ models'[model'].n_factors_item = 128
               ELSE models'[model'] = models[_model]
      ]_vars

\* A later fit (its trainer is the second copy) of a template model is
\* training, and its model has left the template's parameters.
C2_Witness ==
    /\ pc = "fit"
    /\ trainer = 3
    /\ _model # None
    /\ lastCall.op = "training_step"
    /\ parameters(models[model]) # parameters(models[_model])
    /\ parameters(models[_model]) \in {parameters(t) : t \in TemplateModels}

\* C3: the parameters of a model object change only in a step of the
\* optimizer after training_step; validation_step and the factor extractions
\* leave them as they are, and a factor extraction repeated on the same
\* dataset right after the first returns the same matrix.
C3_ParametersChangeOnlyInTraining ==
    [][/\ \A r \in (DOMAIN models) \cap (DOMAIN models') :
            parameters(models'[r]) # parameters(models[r])
                => lastCall'.op = "training_step"
       /\ (lastCall.op \in FactorOps /\ lastCall' = lastCall) => result' = result
      ]_vars

\* A validation step has run on a model that training has changed.
C3_Witness ==
    /\ pc = "fit"
    /\ lastCall.op = "validation_step"
    /\ trainers[trainer].global_step > 0
    /\ _model # None
    /\ parameters(models[model]) # parameters(models[_model])

\* C4: a factor extraction requested before any fit fails with NotFittedError.
C4_NotFittedErrorBeforeFit ==
    (lastCall.op \in FactorOps /\ model \in UnfittedModel)
        => result.raised = "NotFittedError"

-----------------------------------------------------------------------------
(* Single calls on a DSSMNoInteractions object (specification SpecBiEncoder) *)

Batches == NonEmptySeqsUpTo(Features, MaxBatchLen)

\* Dataloaders: finite sequences of batches, the empty one included.
DataLoaders == SeqsUpTo(Batches, MaxBatches)

\* Three batches of the same number of rows.
Triples ==
    {t \in Batches \X Batches \X Batches : Len(t[1]) = Len(t[2]) /\ Len(t[2]) = Len(t[3])}

Calls ==
    [op : {"inference_users", "inference_items"}, arg : DataLoaders]
        \cup [op : {"forward", "training_step"}, arg : Triples]

InitBiEncoder ==
    /\ \E m \in TemplateModels
              \cup {DSSMNoInteractions(DefaultNFactors, DefaultNFactors, w[1], w[2]) :
                      w \in InitWeights} :
         models = (1 :> m)
    /\ model = 1
    /\ input \in Calls
    /\ pc = "call"
    /\ trainers = <<>>
    /\ _model = None
    /\ _trainer = None
    /\ trainer = Missing
    /\ batch_size = 1
    /\ fitArgs = [valid |-> FALSE]
    /\ lastCall = NoCall
    /\ result = Return(<<>>)

Called(op) ==
    /\ pc = "call"
    /\ input.op = op
    /\ pc' = "done"
    /\ lastCall' = input
    /\ UNCHANGED <<trainers, _model, _trainer, model, trainer, batch_size, fitArgs, input>>

\* self(a1, a2, a3): forward with its arguments passed by position.
CallForward ==
    /\ Called("forward")
    /\ result' = Return(forward(models[model], input.arg[1], input.arg[2], input.arg[3]))
    /\ UNCHANGED models

CallTrainingStep ==
    /\ Called("training_step")
    /\ result' = Return(training_step(models[model], input.arg))
    /\ UNCHANGED models

CallInferenceUsers ==
    /\ Called("inference_users")
    /\ result' = inference_users(models[model], input.arg)
    /\ models' = [models EXCEPT ![model] = eval(@)]

CallInferenceItems ==
    /\ Called("inference_items")
    /\ result' = inference_items(models[model], input.arg)
    /\ models' = [models EXCEPT ![model] = eval(@)]

NextBiEncoder ==
    \/ CallForward
    \/ CallTrainingStep
    \/ CallInferenceUsers
    \/ CallInferenceItems

SpecBiEncoder == InitBiEncoder /\ [][NextBiEncoder]_vars

\* The rows of all batches of a dataloader, in iteration order.
Elements(dataloader) == Concat(dataloader)

\* The matrix the claim describes: the tower's output for every element the
\* dataloader yields, in iteration order.
ExpectedFactors(op, self, dataloader) ==
    IF op = "inference_users"
    THEN [i \in 1..Len(Elements(dataloader)) |->
            UserNet_forward(self.user_net, Elements(dataloader)[i])]
    ELSE [i \in 1..Len(Elements(dataloader)) |->
            ItemNet_forward(self.item_net, Elements(dataloader)[i])]

\* C1: for every dataloader, the one of zero batches included, inference_users
\* and inference_items return a matrix with one row per element yielded, the
\* rows being the tower outputs of the elements in iteration order.
C1_InferenceRowsInOrder ==
    lastCall.op \in {"inference_users", "inference_items"} =>
        /\ result.raised = ""
        /\ Len(result.value) = Len(Elements(lastCall.arg))
        /\ result.value = ExpectedFactors(lastCall.op, models[model], lastCall.arg)

\* C5 as stated: forward(a1, a2, a3) runs the User Tower on a1 and the Item
\* Tower on a2 and on a3.
C5_ForwardUserFirst ==
    lastCall.op = "forward" =>
        result.value = <<user_net(models[model], lastCall.arg[1]),
                         item_net(models[model], lastCall.arg[2]),
                         item_net(models[model], lastCall.arg[3])>>

\* C5 amended: the positional parameters of forward are (item_features_pos,
\* item_features_neg, user_features): forward(a1, a2, a3) returns
\* (anchor, pos, neg) with anchor the User Tower on a3, pos the Item Tower on
\* a1 and neg the Item Tower on a2, each a function of its own argument only.
C5_ForwardItemsFirst ==
    lastCall.op = "forward" =>
        result.value = <<user_net(models[model], lastCall.arg[3]),
                         item_net(models[model], lastCall.arg[1]),
                         item_net(models[model], lastCall.arg[2])>>

\* forward was called with three different batches, and its three outputs
\* differ.
C5_Witness ==
    /\ lastCall.op = "forward"
    /\ lastCall.arg[1] # lastCall.arg[2]
    /\ lastCall.arg[2] # lastCall.arg[3]
    /\ lastCall.arg[1] # lastCall.arg[3]
    /\ result.value[1] # result.value[2]
    /\ result.value[2] # result.value[3]

-----------------------------------------------------------------------------
(* Array set operations (rectools/utils/array_set_ops.py)                  *)
(*                                                                         *)
(* A 1-d array is [dtype, data]; an array of rows is [dtype, ndim, ncols,  *)
(* rows], with the rows integers when ndim = 1.                            *)

MaxLen == 2     \* elements of a 1-d array
MaxRows == 2    \* rows of a 2-d array

\* values of the elements of a 1-d array
Values == {0, 1, 2}

\* values of the entries of a 2-d array
Entries == {-1, 0, 1}

IntegerDTypes == {"int16", "int32", "int64"}

\* np.issubdtype(dtype, np.integer)
is_integer_dtype(dtype) == dtype \in IntegerDTypes

\* dtype.itemsize, in bytes
itemsize(dtype) == IF dtype = "int16" THEN 2 ELSE IF dtype = "int32" THEN 4 ELSE 8

RECURSIVE Pow256(_)
Pow256(k) == IF k = 0 THEN 1 ELSE 256 * Pow256(k - 1)

\* The bytes of a two's-complement integer of size bytes, little-endian.
int_bytes(v, size) == [j \in 1..size |-> ((v % Pow256(size)) \div Pow256(j - 1)) % 256]

RECURSIVE bytes_unsigned(_)
bytes_unsigned(b) == IF b = <<>> THEN 0 ELSE Head(b) + 256 * bytes_unsigned(Tail(b))

\* The two's-complement integer little-endian bytes hold.
bytes_int(b) ==
    LET u == bytes_unsigned(b)
    IN  IF 2 * u >= Pow256(Len(b)) THEN u - Pow256(Len(b)) ELSE u

\* np.ascontiguousarray(arr).view((np.void, itemsize * ncols)): each row as
\* one blob of bytes.
view_void(row, size) == Concat([j \in 1..Len(row) |-> int_bytes(row[j], size)])

\* unq_consolidated.view(arr_dtype).reshape(...): a blob back as a row.
view_int(blob, size) ==
    [j \in 1..(Len(blob) \div size) |-> bytes_int(SubSeq(blob, (j - 1) * size + 1, j * size))]

\* Order of rows of integers, and of blobs as unsigned bytes: lexicographic.
RECURSIVE LexLess(_, _)
LexLess(a, b) ==
    IF a = <<>> THEN b # <<>>
    ELSE IF b = <<>> THEN FALSE
    ELSE IF Head(a) # Head(b) THEN Head(a) < Head(b)
    ELSE LexLess(Tail(a), Tail(b))

\* The elements of a set of sequences in ascending lexicographic order.
RECURSIVE SortedSeqs(_)
SortedSeqs(S) ==
    IF S = {} THEN <<>>
    ELSE LET m == CHOOSE x \in S : \A y \in S : y = x \/ LexLess(x, y)
         IN  <<m>> \o SortedSeqs(S \ {m})

\* The elements of a set of integers in ascending order.
RECURSIVE SortedInts(_)
SortedInts(S) ==
    IF S = {} THEN <<>>
    ELSE LET m == CHOOSE x \in S : \A y \in S : x <= y
         IN  <<m>> \o SortedInts(S \ {m})

Range(s) == {s[i] : i \in DOMAIN s}

\* np.unique(keys, return_inverse=True) on blobs: the distinct keys in
\* ascending order, and for every key its 0-based index among them.
np_unique_inverse(keys) ==
    LET unq == SortedSeqs(Range(keys))
    IN  [unq |-> unq,
         inv |-> [i \in 1..Len(keys) |-> (CHOOSE k \in 1..Len(unq) : unq[k] = keys[i]) - 1]]

fast_2d_int_unique_unsigned(arr) ==
    IF ~is_integer_dtype(arr.dtype) THEN Raise("TypeError")
    ELSE IF arr.ndim # 2 THEN Raise("ValueError")
    ELSE LET size == itemsize(arr.dtype)
             u == np_unique_inverse([i \in 1..Len(arr.rows) |-> view_void(arr.rows[i], size)])
         IN  Return(<<[dtype |-> arr.dtype, ndim |-> 2, ncols |-> arr.ncols,
                       rows |-> [k \in 1..Len(u.unq) |->
                                   [j \in 1..arr.ncols |->
                                      bytes_unsigned(SubSeq(u.unq[k], (j - 1) * size + 1,
                                                            j * size))]]],
                      u.inv>>)

fast_2d_int_unique(arr) ==
    IF ~is_integer_dtype(arr.dtype) THEN Raise("TypeError")
    ELSE IF arr.ndim # 2 THEN Raise("ValueError")
    ELSE LET size == itemsize(arr.dtype)
             consolidated == [i \in 1..Len(arr.rows) |-> view_void(arr.rows[i], size)]
             u == np_unique_inverse(consolidated)
             unq_arr == [dtype |-> arr.dtype, ndim |-> 2, ncols |-> arr.ncols,
                         rows |-> [k \in 1..Len(u.unq) |-> view_int(u.unq[k], size)]]
         IN  Return(<<unq_arr, u.inv>>)

SetMax(S) == CHOOSE x \in S : \A y \in S : y <= x

\* sparse.csr_matrix((data, (row, col))) of True entries: the shape is taken
\* from the largest indices, entries given twice are merged and the column
\* indices of every row are in ascending order.  No index may be negative,
\* and no shape can be taken from no index at all.
csr_matrix(row, col) ==
    IF Len(row) = 0 THEN Raise("ValueError")
    ELSE IF \E i \in 1..Len(row) : row[i] < 0 \/ col[i] < 0 THEN Raise("ValueError")
    ELSE LET M == SetMax(Range(row)) + 1
         IN  Return([r \in 0..(M - 1) |->
                        SortedInts({col[i] : i \in {j \in 1..Len(row) : row[j] = r}})])

\* csr.tocoo(): the coordinates of the stored entries, row by row.
RECURSIVE tocoo_from(_, _)
tocoo_from(csr, r) ==
    IF r \notin DOMAIN csr THEN <<>>
    ELSE [k \in 1..Len(csr[r]) |-> <<r, csr[r][k]>>] \o tocoo_from(csr, r + 1)

tocoo(csr) == tocoo_from(csr, 0)

fast_2d_2col_int_unique_no_empty_case(arr) ==
    IF ~is_integer_dtype(arr.dtype) THEN Raise("TypeError")
    ELSE IF arr.ndim # 2 THEN Raise("ValueError")
    ELSE IF arr.ncols # 2 THEN Raise("ValueError")
    ELSE LET csr == csr_matrix([i \in 1..Len(arr.rows) |-> arr.rows[i][1]],
                               [i \in 1..Len(arr.rows) |-> arr.rows[i][2]])
         IN  IF csr.raised # "" THEN csr
             ELSE Return([dtype |-> "int32", ndim |-> 2, ncols |-> 2,
                          rows |-> tocoo(csr.value)])

fast_2d_2col_int_unique(arr) ==
    IF ~is_integer_dtype(arr.dtype) THEN Raise("TypeError")
    ELSE IF arr.ndim # 2 THEN Raise("ValueError")
    ELSE IF arr.ncols # 2 THEN Raise("ValueError")
    ELSE IF Len(arr.rows) = 0 THEN Return(arr)
    ELSE LET csr == csr_matrix([i \in 1..Len(arr.rows) |-> arr.rows[i][1]],
                               [i \in 1..Len(arr.rows) |-> arr.rows[i][2]])
         IN  IF csr.raised # "" THEN csr
             ELSE LET coo == tocoo(csr.value)
                      res == [dtype |-> "int32", ndim |-> 2, ncols |-> 2, rows |-> coo]
                  IN  Return(res)

is_object_dtype(arr) == arr.dtype = "object"

\* pd.Series(elements).isin(test_elements).values: for every element, whether
\* it is among the values of test_elements.
pd_isin(elements, test_elements) ==
    [i \in 1..Len(elements) |-> elements[i] \in Range(test_elements)]

\* np.isin(elements, test_elements): for every element, whether some test
\* element equals it.
np_isin(elements, test_elements) ==
    [i \in 1..Len(elements) |-> \E j \in 1..Len(test_elements) : test_elements[j] = elements[i]]

fast_isin(elements, test_elements) ==
    IF is_object_dtype(elements) \/ is_object_dtype(test_elements)
    THEN pd_isin(elements.data, test_elements.data)
    ELSE np_isin(elements.data, test_elements.data)

\* np.searchsorted(a, v, side): bisection of a[lo..hi) for the insertion
\* point of v; indices are 0-based.
RECURSIVE bisect(_, _, _, _, _)
bisect(a, v, side, lo, hi) ==
    IF lo >= hi THEN lo
    ELSE LET mid == lo + ((hi - lo) \div 2)
             goes_right == IF side = "left" THEN a[mid + 1] < v ELSE a[mid + 1] <= v
         IN  IF goes_right THEN bisect(a, v, side, mid + 1, hi)
             ELSE bisect(a, v, side, lo, mid)

searchsorted(a, v, side) == [i \in 1..Len(v) |-> bisect(a, v[i], side, 0, Len(a))]

fast_isin_for_sorted_test_elements_invert_empty(elements, sorted_test_elements, invert) ==
    LET ss_result_left == searchsorted(sorted_test_elements.data, elements.data, "left")
        ss_result_right == searchsorted(sorted_test_elements.data, elements.data, "right")
    IN  IF invert
        THEN [i \in 1..Len(elements.data) |-> ss_result_right[i] = ss_result_left[i]]
        ELSE [i \in 1..Len(elements.data) |-> ss_result_right[i] = ss_result_left[i] + 1]

fast_isin_for_sorted_test_elements(elements, sorted_test_elements, invert) ==
    LET ss_result_left == searchsorted(sorted_test_elements.data, elements.data, "left")
        ss_result_right == searchsorted(sorted_test_elements.data, elements.data, "right")
    IN  IF invert
        THEN [i \in 1..Len(elements.data) |-> ss_result_right[i] # ss_result_left[i] + 1]
        ELSE [i \in 1..Len(elements.data) |-> ss_result_right[i] = ss_result_left[i] + 1]

\* np.sort of a 1-d array: ascending, repeated values kept.
RECURSIVE insert_sorted(_, _)
insert_sorted(x, s) ==
    IF s = <<>> THEN <<x>>
    ELSE IF x <= Head(s) THEN <<x>> \o s
    ELSE <<Head(s)>> \o insert_sorted(x, Tail(s))

RECURSIVE sort_data(_)
sort_data(s) == IF s = <<>> THEN <<>> ELSE insert_sorted(Head(s), sort_data(Tail(s)))

sorted(arr) == [arr EXCEPT !.data = sort_data(@)]

-----------------------------------------------------------------------------
(* Single calls of the array set operations (specification SpecSetOps) *)

Arrays1D == [dtype : {"int64", "object"}, data : SeqsUpTo(Values, MaxLen)]

\* Arrays of 1 or 2 columns of integers or floats, and arrays of one dimension.
Arrays2D ==
    UNION {[dtype : {"int16", "float64"}, ndim : {2}, ncols : {m},
            rows : SeqsUpTo([1..m -> Entries], MaxRows)] : m \in {1, 2}}
        \cup [dtype : {"int16"}, ndim : {1}, ncols : {0}, rows : SeqsUpTo(Entries, MaxRows)]

SetOpsCalls ==
    [op : {"fast_2d_int_unique", "fast_2d_2col_int_unique"}, arg : Arrays2D]
        \cup [op : {"fast_isin"}, arg : Arrays1D \X Arrays1D]
        \cup [op : {"fast_isin_for_sorted_test_elements"},
              arg : Arrays1D \X Arrays1D \X BOOLEAN]

InitSetOps ==
    /\ input \in SetOpsCalls
    /\ pc = "call"
    /\ lastCall = NoCall
    /\ result = Return(<<>>)
    /\ models = <<>>
    /\ trainers = <<>>
    /\ _model = None
    /\ _trainer = None
    /\ model = Missing
    /\ trainer = Missing
    /\ batch_size = 1
    /\ fitArgs = [valid |-> FALSE]

CalledSetOp(op) ==
    /\ pc = "call"
    /\ input.op = op
    /\ pc' = "done"
    /\ lastCall' = input
    /\ UNCHANGED <<models, trainers, _model, _trainer, model, trainer, batch_size,
                   fitArgs, input>>

CallFast2dIntUnique ==
    /\ CalledSetOp("fast_2d_int_unique")
    /\ result' = fast_2d_int_unique(input.arg)

CallFast2d2colIntUnique ==
    /\ CalledSetOp("fast_2d_2col_int_unique")
    /\ result' = fast_2d_2col_int_unique(input.arg)

CallFastIsin ==
    /\ CalledSetOp("fast_isin")
    /\ result' = Return(fast_isin(input.arg[1], input.arg[2]))

CallFastIsinForSorted ==
    /\ CalledSetOp("fast_isin_for_sorted_test_elements")
    /\ result' = Return(fast_isin_for_sorted_test_elements(input.arg[1], input.arg[2],
                                                           input.arg[3]))

NextSetOps ==
    \/ CallFast2dIntUnique
    \/ CallFast2d2colIntUnique
    \/ CallFastIsin
    \/ CallFastIsinForSorted

SpecSetOps == InitSetOps /\ [][NextSetOps]_vars

\* An integer array of shape (n, m).
IsInt2D(arr) == is_integer_dtype(arr.dtype) /\ arr.ndim = 2

\* C6: for 1-d arrays of a primitive numeric type, the candidates with or
\* without repeated values, fast_isin(elements, candidates) equals
\* fast_isin_for_sorted_test_elements(elements, sorted(candidates)) element
\* by element.
C6_IsinAgreesWithSorted ==
    (/\ lastCall.op = "fast_isin"
     /\ ~is_object_dtype(lastCall.arg[1])
     /\ ~is_object_dtype(lastCall.arg[2]))
        => result.value = fast_isin_for_sorted_test_elements(
                              lastCall.arg[1], sorted(lastCall.arg[2]), FALSE)

\* C7: for every non-empty integer array of shape (n, 2),
\* fast_2d_2col_int_unique returns the distinct rows of the input, each once,
\* in ascending order of column 0 and then of column 1.
C7_UniquePairsSorted ==
    (/\ lastCall.op = "fast_2d_2col_int_unique"
     /\ IsInt2D(lastCall.arg)
     /\ lastCall.arg.ncols = 2
     /\ lastCall.arg.rows # <<>>)
        => /\ result.raised = ""
           /\ result.value.rows = SortedSeqs(Range(lastCall.arg.rows))

\* C8: for every integer 2-d array arr, fast_2d_int_unique(arr) returns
\* (unq, inv) with unq[inv[i]] equal to row i of arr for every row i, and no
\* two rows of unq equal.
C8_UniqueRowsInverse ==
    (lastCall.op = "fast_2d_int_unique" /\ IsInt2D(lastCall.arg))
        => /\ result.raised = ""
           /\ LET unq == result.value[1].rows
                  inv == result.value[2]
                  arr == lastCall.arg.rows
              IN  /\ Len(inv) = Len(arr)
                  /\ \A i \in 1..Len(arr) :
                        /\ inv[i] \in 0..(Len(unq) - 1)
                        /\ unq[inv[i] + 1] = arr[i]
                  /\ \A j, k \in 1..Len(unq) : j # k => unq[j] # unq[k]

\* A repeated row was merged, and a negative entry puts the unique rows in an
\* order that is not the ascending order of the integers.
C8_Witness ==
    /\ lastCall.op = "fast_2d_int_unique"
    /\ IsInt2D(lastCall.arg)
    /\ result.raised = ""
    /\ Len(lastCall.arg.rows) = MaxRows
    /\ Len(result.value[1].rows) < Len(lastCall.arg.rows)
    /\ \E i \in 1..Len(lastCall.arg.rows) : lastCall.arg.rows[i][1] < 0

\* C9 as stated: any array of 0 rows comes back unchanged, with no error.
C9_AnyEmptyArrayReturned ==
    (/\ lastCall.op = "fast_2d_2col_int_unique"
     /\ lastCall.arg.ndim = 2
     /\ lastCall.arg.rows = <<>>)
        => result = Return(lastCall.arg)

\* C9 amended: fast_2d_2col_int_unique called on an integer array of 0 rows
\* and 2 columns returns that array unchanged, without raising.
C9_EmptyIntPairsReturned ==
    (/\ lastCall.op = "fast_2d_2col_int_unique"
     /\ IsInt2D(lastCall.arg)
     /\ lastCall.arg.ncols = 2
     /\ lastCall.arg.rows = <<>>)
        => result = Return(lastCall.arg)

C9_Witness ==
    /\ lastCall.op = "fast_2d_2col_int_unique"
    /\ IsInt2D(lastCall.arg)
    /\ lastCall.arg.ncols = 2
    /\ lastCall.arg.rows = <<>>
    /\ result.raised = ""
    /\ result.value.rows = <<>>

\* C10: on the same inputs, sorted or not, with or without repeated values,
\* fast_isin_for_sorted_test_elements with invert=True returns, position by
\* position, the negation of its result with invert=False.
C10_InvertNegates ==
    (lastCall.op = "fast_isin_for_sorted_test_elements" /\ lastCall.arg[3])
        => LET plain == fast_isin_for_sorted_test_elements(
                            lastCall.arg[1], lastCall.arg[2], FALSE)
           IN  /\ Len(result.value) = Len(plain)
               /\ \A i \in 1..Len(plain) : result.value[i] = ~plain[i]

\* An inverted call whose test elements hold a value twice, the value being
\* an element: the inverted result reports it as absent.
C10_Witness ==
    /\ lastCall.op = "fast_isin_for_sorted_test_elements"
    /\ lastCall.arg[3]
    /\ Len(lastCall.arg[1].data) > 0
    /\ lastCall.arg[2].data = <<lastCall.arg[1].data[1], lastCall.arg[1].data[1]>>
    /\ result.value[1]

====
